---- MODULE Spec2Model ----
(***************************************************************************)
(* Moments: the text-format engine (parseMomentsDoc, insertEntry,          *)
(* replaceEntrySpan, deleteEntrySpan, moveToArchive) and the state manager *)
(* that serialises read-transform-write cycles over the backing file.      *)
(*                                                                         *)
(* A text is a sequence of one-character strings; offsets are the 0-based  *)
(* offsets of the source (String.prototype.substring).  A local of the     *)
(* source that is read more than once is an operator parameter here.       *)
(***************************************************************************)
EXTENDS Integers, Sequences, FiniteSets, TLC

(***************************************************************************)
(* Strings                                                                 *)
(***************************************************************************)
NL == "\n"

Lower == {"a","b","c","d","e","f","g","h","i","j","k","l","m",
          "n","o","p","q","r","s","t","u","v","w","x","y","z"}

DigitChars == <<"0","1","2","3","4","5","6","7","8","9">>

Digit == {"0","1","2","3","4","5","6","7","8","9"}

\* [a-z0-9]
IsAlnum(c) == c \in Lower \cup Digit

\* \s of a regular expression, and the characters trim() removes
IsWs(c) == c \in {" ", "\n", "\t", "\r"}

DigitVal(c) == (CHOOSE i \in 1..10 : DigitChars[i] = c) - 1

SetMax(S) == CHOOSE x \in S : \A y \in S : y <= x

SetMin(S) == CHOOSE x \in S : \A y \in S : x <= y

Clamp(n, len) == IF n < 0 THEN 0 ELSE IF n > len THEN len ELSE n

\* s.substring(a, b) for a and b within [0, length]: swapped when a > b
SubstringClamped(s, a, b) == IF a <= b THEN SubSeq(s, a + 1, b) ELSE SubSeq(s, b + 1, a)

\* s.substring(a, b): both ends clamped to [0, length], swapped when a > b
Substring(s, a, b) == SubstringClamped(s, Clamp(a, Len(s)), Clamp(b, Len(s)))

\* s.substring(a)
SubstringFrom(s, a) == SubSeq(s, Clamp(a, Len(s)) + 1, Len(s))

StartsWith(s, p) == Len(s) >= Len(p) /\ SubSeq(s, 1, Len(p)) = p

EndsWith(s, p) == Len(s) >= Len(p) /\ SubSeq(s, Len(s) - Len(p) + 1, Len(s)) = p

TrimEnd(s) == SubSeq(s, 1, SetMax({0} \cup {i \in 1..Len(s) : ~IsWs(s[i])}))

TrimStart(s) ==
  SubSeq(s, SetMin({Len(s) + 1} \cup {i \in 1..Len(s) : ~IsWs(s[i])}), Len(s))

Trim(s) == TrimStart(TrimEnd(s))

\* s.trim() === ""
IsBlank(s) == \A i \in 1..Len(s) : IsWs(s[i])

RECURSIVE Split(_)
\* The lines of s cut at the newline at offset i (1-based), if there is one
SplitAt(s, i) ==
  IF i > Len(s) THEN <<s>>
  ELSE <<SubSeq(s, 1, i - 1)>> \o Split(SubSeq(s, i + 1, Len(s)))

\* s.split("\n")
Split(s) == SplitAt(s, SetMin({Len(s) + 1} \cup {i \in 1..Len(s) : s[i] = NL}))

\* lines.join("\n")
RECURSIVE Join(_)
Join(ls) ==
  IF Len(ls) = 0 THEN <<>>
  ELSE IF Len(ls) = 1 THEN ls[1]
  ELSE ls[1] \o <<NL>> \o Join(Tail(ls))

\* a || b on strings
OrElse(a, b) == IF a # <<>> THEN a ELSE b

\* null, where the source has a string or null (no id is the empty string)
Null == <<>>

(***************************************************************************)
(* utils/id.ts                                                             *)
(***************************************************************************)
BLOCK_ID_PREFIX == <<"m", "-">>

\* The offset (1-based) at which /\^(m-[a-z0-9]+)$/ matches in t, which has
\* no white space at its end, or 0.  The match ends at the end of t, so it
\* starts at the one "^m-" that a non-empty run of [a-z0-9] follows to the
\* end.
MarkerPosTrimmed(t) ==
  SetMax({0} \cup {p \in 1..(Len(t) - 3) :
                     /\ t[p] = "^" /\ t[p + 1] = "m" /\ t[p + 2] = "-"
                     /\ \A j \in (p + 3)..Len(t) : IsAlnum(t[j])})

\* The offset (1-based) at which /\^(m-[a-z0-9]+)\s*$/ matches in s, or 0
MarkerPos(s) == MarkerPosTrimmed(TrimEnd(s))

\* The capture group (m- and the run) of the match at p in t, null for p = 0
MarkerIdAt(t, p) == IF p = 0 THEN Null ELSE SubSeq(t, p + 1, Len(t))

MarkerIdTrimmed(t) == MarkerIdAt(t, MarkerPosTrimmed(t))

\* line.match(/\^(m-[a-z0-9]+)\s*$/)?.[1] ?? null
extractBlockId(line) == MarkerIdTrimmed(TrimEnd(line))

\* s with the match at p (0: none) of /\s*\^m-[a-z0-9]+\s*$/ removed: the
\* marker, the white space after it and the white space run before it
ReplaceMarkerAt(s, p) == IF p = 0 THEN s ELSE TrimEnd(SubSeq(s, 1, p - 1))

\* s.replace(/\s*\^m-[a-z0-9]+\s*$/, "")
ReplaceMarker(s) == ReplaceMarkerAt(s, MarkerPos(s))

RECURSIVE PopBlank(_)
\* while (lines.length > 0 && last.trim() === "") lines.pop()
PopBlank(ls) ==
  IF Len(ls) > 0 /\ IsBlank(ls[Len(ls)])
  THEN PopBlank(SubSeq(ls, 1, Len(ls) - 1))
  ELSE ls

\* The second branch of stripBlockIdFromContent: lastLine is the trimmed last
\* line and p where /^\^(m-[a-z0-9]+)$/ matches in it (1 or no match)
StripOwnLine(content, lines, lastLine, p) ==
  IF p = 1
  THEN [content |-> Trim(Join(PopBlank(SubSeq(lines, 1, Len(lines) - 1)))),
        blockId |-> SubSeq(lastLine, 2, Len(lastLine))]
  ELSE [content |-> Trim(content), blockId |-> Null]

StripLastLine(content, lines, lastLine) ==
  StripOwnLine(content, lines, lastLine, MarkerPosTrimmed(lastLine))

StripLines(content, lines) == StripLastLine(content, lines, Trim(lines[Len(lines)]))

\* stripBlockIdFromContent with t the content without the white space at its
\* end and p the offset of the inline match in it
StripAt(content, t, p) ==
  IF p # 0
  THEN [content |-> Trim(SubSeq(t, 1, p - 1)), blockId |-> SubSeq(t, p + 1, Len(t))]
  ELSE StripLines(content, Split(content))

StripTrimmed(content, t) == StripAt(content, t, MarkerPosTrimmed(t))

stripBlockIdFromContent(content) == StripTrimmed(content, TrimEnd(content))

\* Characters used for the random part of an id
CHARS == <<"0","1","2","3","4","5","6","7","8","9",
           "a","b","c","d","e","f","g","h","i","j","k","l","m",
           "n","o","p","q","r","s","t","u","v","w","x","y","z">>

RECURSIVE ToBase36(_)
\* Number.prototype.toString(36)
ToBase36(n) ==
  IF n < 36 THEN <<CHARS[n + 1]>>
  ELSE ToBase36(n \div 36) \o <<CHARS[(n % 36) + 1]>>

IdA == <<"m","-","a","a","a","a","a","a">>
IdB == <<"m","-","b","b","b","b","b","b">>
IdC == <<"m","-","c","c","c","c","c","c">>

\* The values of BLOCK_ID_PREFIX + randomString(6) the model draws
RandomIds == {IdA, IdC}

\* The values of randomString(3) the model draws
Random3 == {<<"z","z","z">>}

\* The ids of the fallback: the time in base 36 and three random characters
FallbackIds(now) == {BLOCK_ID_PREFIX \o ToBase36(now) \o r : r \in Random3}

\* An id of the shape a random draw has (m- and six characters)
IsRandomShape(id) == Len(id) = 8

\* generateBlockId(existingIds) can return id: a draw that is not in
\* existingIds, or, when the hundred draws can all be in existingIds, the
\* fallback, which is returned whether or not it is in existingIds.
generateBlockId(existingIds, now, id) ==
  \/ id \in RandomIds /\ id \notin existingIds
  \/ /\ \E e \in existingIds : IsRandomShape(e)
     /\ id \in FallbackIds(now)

\* What generateBlockId() returns without an exclusion set
generateBlockIdAny(id) == id \in RandomIds

(***************************************************************************)
(* utils/time.ts, for timestampFormat = "HH:mm"                            *)
(***************************************************************************)
\* The clock counts half minutes
TicksPerMinute == 2

FormatLength == 5

NoTime == 0 - 1

TwoDigits(n) == <<DigitChars[(n \div 10) + 1], DigitChars[(n % 10) + 1]>>

\* The minute of the day of a time
MinuteOfDay(timestamp) == (timestamp \div TicksPerMinute) % 1440

FormatMinute(m) == TwoDigits(m \div 60) \o <<":">> \o TwoDigits(m % 60)

\* moment(timestamp).format("HH:mm")
formatTimestamp(timestamp) == FormatMinute(MinuteOfDay(timestamp))

\* The time of hour h and minute mi when moment takes them, or NoTime
TimeOf(h, mi) ==
  IF mi <= 59 /\ (h <= 23 \/ (h = 24 /\ mi = 0))
  THEN (h * 60 + mi) * TicksPerMinute
  ELSE NoTime

\* moment(str, "HH:mm", true): the value when valid, or NoTime
parseTimestamp(str) ==
  IF /\ Len(str) = 5
     /\ str[1] \in Digit /\ str[2] \in Digit /\ str[3] = ":"
     /\ str[4] \in Digit /\ str[5] \in Digit
  THEN TimeOf(DigitVal(str[1]) * 10 + DigitVal(str[2]),
              DigitVal(str[4]) * 10 + DigitVal(str[5]))
  ELSE NoTime

\* The result of extractTimestampPrefix for the first len the loop accepts
\* (len < 0: none)
PrefixAt(text, len) ==
  IF len < 0 THEN [timestamp |-> NoTime, remainingText |-> text]
  ELSE [timestamp |-> parseTimestamp(Trim(Substring(text, 0, len))),
        remainingText |-> TrimStart(SubstringFrom(text, len))]

\* Math.min(formatLength + 5, text.length)
LongestPrefix(text) ==
  IF FormatLength + 5 < Len(text) THEN FormatLength + 5 ELSE Len(text)

extractTimestampPrefix(text) ==
  PrefixAt(text,
           SetMax({0 - 1} \cup {len \in (FormatLength - 2)..LongestPrefix(text) :
                                  parseTimestamp(Trim(Substring(text, 0, len))) # NoTime}))

(***************************************************************************)
(* parseMomentsDoc                                                         *)
(***************************************************************************)
ARCHIVE_SEPARATOR == <<"*", "*", "*">>

ARCHIVE_HEADING == <<"#", "#", " ", "A", "r", "c", "h", "i", "v", "e">>

\* LIST_ITEM_REGEX /^- /
IsListItem(line) == StartsWith(line, <<"-", " ">>)

\* FRONTMATTER_REGEX /^---\s*$/
IsFrontmatterLine(line) ==
  /\ StartsWith(line, <<"-", "-", "-">>)
  /\ \A i \in 4..Len(line) : IsWs(line[i])

Indent == <<" ", " ">>

\* currentEntry = null
NoEntry == [open |-> FALSE, lines |-> <<>>, startOffset |-> 0, endOffset |-> 0]

\* The result object of parseMomentsDoc before the scan.  gen counts the ids
\* generateBlockId returned during the parse and genOk says that each of
\* them is a value generateBlockId can return for the ids registered then.
EmptyDoc(text) ==
  [entries |-> <<>>, archiveEntries |-> <<>>, errors |-> <<>>,
   originalText |-> text, spans |-> <<>>, archiveStartOffset |-> 0 - 1,
   gen |-> 0, genOk |-> TRUE]

\* spans.keys()
SpanIds(spans) == {spans[i].id : i \in 1..Len(spans)}

\* spans.has(id)
HasSpan(spans, id) == \E i \in 1..Len(spans) : spans[i].id = id

\* spans.get(id), for an id of the map
GetSpan(spans, id) == spans[CHOOSE i \in 1..Len(spans) : spans[i].id = id]

\* spans.set(id, span): a Map keeps the place of a key that is set again
SetSpan(spans, span) ==
  IF HasSpan(spans, span.id)
  THEN [i \in 1..Len(spans) |-> IF spans[i].id = span.id THEN span ELSE spans[i]]
  ELSE Append(spans, span)

\* The lines of a block once the identity marker extractedId of its last
\* line is handled (lines 349-371)
ContentLinesFor(lines, lastLine, extractedId) ==
  IF extractedId = Null THEN lines
  ELSE IF Trim(lastLine) = <<"^">> \o extractedId
       THEN PopBlank(SubSeq(lines, 1, Len(lines) - 1))
       ELSE [lines EXCEPT ![Len(lines)] = ReplaceMarker(lastLine)]

\* The end of finalizeEntry (lines 400-422): the entry is pushed (to
\* archiveEntries when toArchive) and its span registered
PushEntry(doc, raw, toArchive, now, entry) ==
  [doc EXCEPT
     !.entries = IF toArchive THEN @ ELSE Append(@, entry),
     !.archiveEntries = IF toArchive THEN Append(@, entry) ELSE @,
     !.spans = SetSpan(@, [id |-> entry.id, start |-> raw.startOffset,
                           end |-> raw.endOffset]),
     !.errors = IF entry.idMissing
                THEN Append(@, [id |-> entry.id,
                                context |-> Substring(entry.rawWithPrefix, 0, 50)])
                ELSE @,
     !.gen = IF entry.idMissing THEN @ + 1 ELSE @,
     !.genOk = IF entry.idMissing
               THEN @ /\ generateBlockId(SpanIds(doc.spans), now, entry.id)
               ELSE @]

\* finalizeEntry from line 390, ts being extractTimestampPrefix(rawWithPrefix)
FinalizeTimed(doc, raw, toArchive, now, pick, blockId, rawWithPrefix, ts) ==
  PushEntry(doc, raw, toArchive, now,
            [id |-> IF blockId = Null THEN pick ELSE blockId,
             createdAt |-> IF ts.timestamp = NoTime THEN now ELSE ts.timestamp,
             raw |-> OrElse(stripBlockIdFromContent(ts.remainingText).content,
                            OrElse(ts.remainingText, rawWithPrefix)),
             rawWithPrefix |-> rawWithPrefix,
             idMissing |-> blockId = Null])

\* finalizeEntry from line 387
FinalizePrefixed(doc, raw, toArchive, now, pick, blockId, rawWithPrefix) ==
  FinalizeTimed(doc, raw, toArchive, now, pick, blockId, rawWithPrefix,
                extractTimestampPrefix(rawWithPrefix))

\* finalizeEntry from line 382, stripped being the result of the safety net
FinalizeStripped(doc, raw, toArchive, now, pick, blockId, rawWithPrefix, stripped) ==
  FinalizePrefixed(doc, raw, toArchive, now, pick,
                   IF blockId = Null THEN stripped.blockId ELSE blockId,
                   OrElse(stripped.content, rawWithPrefix))

\* finalizeEntry from line 374, blockId being the id of the last line and
\* rawWithPrefix the joined content lines
FinalizeJoined(doc, raw, toArchive, now, pick, blockId, rawWithPrefix) ==
  IF IsBlank(rawWithPrefix) THEN doc
  ELSE FinalizeStripped(doc, raw, toArchive, now, pick, blockId, rawWithPrefix,
                        stripBlockIdFromContent(rawWithPrefix))

FinalizeLast(doc, raw, toArchive, now, pick, lastLine, extractedId) ==
  FinalizeJoined(doc, raw, toArchive, now, pick, extractedId,
                 Join(ContentLinesFor(raw.lines, lastLine, extractedId)))

\* finalizeEntry(raw, timestampFormat, spans, errors): the document with the
\* entry pushed and its span registered, or the document as it is when the
\* block gives no entry; pick is what generateBlockId returns if it is called
finalizeEntry(doc, raw, toArchive, now, pick) ==
  IF Len(raw.lines) = 0 THEN doc
  ELSE FinalizeLast(doc, raw, toArchive, now, pick, raw.lines[Len(raw.lines)],
                    extractBlockId(raw.lines[Len(raw.lines)]))

\* The id the next call of generateBlockId returns during a parse
NextPick(picks, doc) == IF doc.gen < Len(picks) THEN picks[doc.gen + 1] ELSE Null

\* The locals of parseMomentsDoc before the first line
ScanInit(text) ==
  [doc |-> EmptyDoc(text), lineOffset |-> 0, inFrontmatter |-> FALSE,
   frontmatterStarted |-> FALSE, inArchive |-> FALSE, cur |-> NoEntry]

\* The branch of the loop body (lines 229-310) a line takes
LineKind(st, line) ==
  IF IsFrontmatterLine(line) /\ ~st.frontmatterStarted THEN "open"
  ELSE IF IsFrontmatterLine(line) /\ st.inFrontmatter THEN "close"
  ELSE IF st.inFrontmatter THEN "frontmatter"
  ELSE IF Trim(line) = ARCHIVE_SEPARATOR THEN "separator"
  ELSE IF st.inArchive /\ Trim(line) = ARCHIVE_HEADING THEN "heading"
  ELSE IF IsListItem(line) THEN "item"
  ELSE IF ~st.cur.open THEN "skip"
  ELSE IF StartsWith(line, Indent) \/ IsBlank(line) THEN "continuation"
  ELSE "end"

\* The document after the calls of finalizeEntry of the branch: the archive
\* separator pushes the open block to entries, a list item and a line that
\* ends the block push it to the list of the section
CloseFor(st, kind, now, picks) ==
  IF st.cur.open /\ kind \in {"separator", "item", "end"}
  THEN finalizeEntry(st.doc, st.cur, st.inArchive /\ kind # "separator", now,
                     NextPick(picks, st.doc))
  ELSE st.doc

\* One iteration of the loop over the lines, closed being CloseFor
ScanKind(st, line, kind, closed) ==
  [st EXCEPT
     !.lineOffset = @ + Len(line) + 1,
     !.frontmatterStarted = @ \/ kind = "open",
     !.inFrontmatter = IF kind = "open" THEN TRUE
                       ELSE IF kind = "close" THEN FALSE ELSE @,
     !.inArchive = @ \/ kind = "separator",
     !.doc = IF kind = "separator"
             THEN [closed EXCEPT !.archiveStartOffset = st.lineOffset]
             ELSE closed,
     !.cur = IF kind \in {"separator", "end"} THEN NoEntry
             ELSE IF kind = "item"
             THEN [open |-> TRUE, lines |-> <<SubstringFrom(line, 2)>>,
                   startOffset |-> st.lineOffset,
                   endOffset |-> st.lineOffset + Len(line)]
             ELSE IF kind = "continuation"
             THEN [@ EXCEPT !.lines = Append(@, IF StartsWith(line, Indent)
                                                THEN SubstringFrom(line, 2)
                                                ELSE line),
                            !.endOffset = st.lineOffset + Len(line)]
             ELSE @]

ScanKinded(st, line, kind, now, picks) ==
  ScanKind(st, line, kind, CloseFor(st, kind, now, picks))

ScanLine(st, line, now, picks) == ScanKinded(st, line, LineKind(st, line), now, picks)

RECURSIVE ScanLines(_, _, _, _, _)
ScanLines(st, lines, i, now, picks) ==
  IF i > Len(lines) THEN st
  ELSE ScanLines(ScanLine(st, lines[i], now, picks), lines, i + 1, now, picks)

\* The end of parseMomentsDoc (lines 315-327)
ScanEnd(st, now, picks) ==
  finalizeEntry(st.doc, st.cur, st.inArchive, now, NextPick(picks, st.doc))

\* parseMomentsDoc(text, "HH:mm") at time now, generateBlockId returning picks
parseMomentsDoc(text, now, picks) ==
  ScanEnd(ScanLines(ScanInit(text), Split(text), 1, now, picks), now, picks)

(***************************************************************************)
(* The span-based mutators                                                 *)
(***************************************************************************)
\* [`${timestamp} ${firstLine}`, ...lines.slice(1), `^${id}`].join("\n")
StampedBlock(lines, timestamp, id) ==
  Join(<<timestamp \o <<" ">> \o lines[1]>> \o Tail(lines) \o <<<<"^">> \o id>>)

\* createEntryBlock(content, "HH:mm", blockId) at time now; without a
\* blockId argument, blockId is what generateBlockId() returned
createEntryBlock(content, now, blockId) ==
  StampedBlock(Split(content), formatTimestamp(now), blockId)

ListItemOf(lines) ==
  Join([i \in 1..Len(lines) |->
          IF i = 1 THEN <<"-", " ">> \o lines[i] ELSE Indent \o lines[i]])

formatEntryAsListItem(entryBlock) == ListItemOf(Split(entryBlock))

RECURSIVE FrontmatterEndFrom(_, _, _, _)
FrontmatterEndFrom(lines, i, inFrontmatter, offset) ==
  IF i > Len(lines) THEN 0 - 1
  ELSE IF IsFrontmatterLine(lines[i]) /\ inFrontmatter
       THEN offset + Len(lines[i]) + 1
       ELSE FrontmatterEndFrom(lines, i + 1,
                               inFrontmatter \/ IsFrontmatterLine(lines[i]),
                               offset + Len(lines[i]) + 1)

findFrontmatterEnd(text) == FrontmatterEndFrom(Split(text), 1, FALSE, 0)

\* The prepend branch with a blank line before the block whatever the text
\* before it ends with
PrependAtPadded(before, formattedEntry, after) ==
  before \o <<NL, NL>> \o formattedEntry \o <<NL>> \o after

\* The prepend branch of insertEntry (lines 519-531)
PrependAt(before, formattedEntry, after) ==
  before
  \o (IF Len(before) > 0 /\ ~EndsWith(before, <<NL, NL>>) THEN <<NL>> ELSE <<>>)
  \o formattedEntry
  \o (IF Len(after) > 0 /\ ~StartsWith(after, <<NL>>) THEN <<NL>> ELSE <<>>)
  \o after

PrependFrom(text, formattedEntry, frontmatterEnd) ==
  PrependAt(Substring(text, 0, IF frontmatterEnd >= 0 THEN frontmatterEnd ELSE 0),
            formattedEntry,
            SubstringFrom(text, IF frontmatterEnd >= 0 THEN frontmatterEnd ELSE 0))

\* The append branch of insertEntry (lines 533-541)
AppendAt(text, formattedEntry, archiveStartOffset) ==
  IF archiveStartOffset >= 0
  THEN TrimEnd(Substring(text, 0, archiveStartOffset)) \o <<NL, NL>>
       \o formattedEntry \o <<NL, NL>> \o SubstringFrom(text, archiveStartOffset)
  ELSE TrimEnd(text) \o <<NL, NL>> \o formattedEntry \o <<NL>>

InsertFormatted(text, formattedEntry, position, now) ==
  IF position = "prepend"
  THEN PrependFrom(text, formattedEntry, findFrontmatterEnd(text))
  ELSE AppendAt(text, formattedEntry,
                parseMomentsDoc(text, now, <<>>).archiveStartOffset)

\* insertEntry(text, entryContent, position, "HH:mm") at time now, with
\* newId the id generateBlockId() returned.  The parse is used for
\* archiveStartOffset only, which no generated id changes.
insertEntry(text, entryContent, position, now, newId) ==
  InsertFormatted(text,
                  formatEntryAsListItem(createEntryBlock(entryContent, now, newId)),
                  position, now)

\* entries.find(e => e.id === id): its index, 0 when there is none
FindIn(es, id) == SetMin({i \in 1..Len(es) : es[i].id = id} \cup {Len(es) + 1}) % (Len(es) + 1)

\* entries.find(...) ?? archiveEntries.find(...), as a sequence of at most one
FoundOf(entries, ia, archiveEntries, ib) ==
  IF ia # 0 THEN <<entries[ia]>>
  ELSE IF ib # 0 THEN <<archiveEntries[ib]>> ELSE <<>>

ExistingEntryIn(parsed, id) ==
  FoundOf(parsed.entries, FindIn(parsed.entries, id),
          parsed.archiveEntries, FindIn(parsed.archiveEntries, id))

\* The entry block of replaceEntrySpan (lines 568-577)
ReplacementBlock(existing, id, newContent, keepOriginalTimestamp, now) ==
  IF keepOriginalTimestamp /\ Len(existing) > 0
  THEN StampedBlock(Split(newContent), formatTimestamp(existing[1].createdAt), id)
  ELSE createEntryBlock(newContent, now, id)

\* The rebuilt block is put after the rest of the text
ReplaceAtEnd(before, formattedEntry, after) ==
  before \o after \o formattedEntry \o <<NL>>

\* before + formattedEntry + (after.startsWith("\n") ? "" : "\n") + after
ReplaceAt(before, formattedEntry, after) ==
  before \o formattedEntry
  \o (IF StartsWith(after, <<NL>>) THEN <<>> ELSE <<NL>>) \o after

\* replaceEntrySpan(text, span, newContent, "HH:mm", keepOriginalTimestamp)
replaceEntrySpan(text, span, newContent, keepOriginalTimestamp, now, picks) ==
  ReplaceAt(Substring(text, 0, span.start),
            formatEntryAsListItem(
              ReplacementBlock(ExistingEntryIn(parseMomentsDoc(text, now, picks), span.id),
                               span.id, newContent, keepOriginalTimestamp, now)),
            SubstringFrom(text, span.end + 1))

DeleteAt(before, after) ==
  IF EndsWith(before, <<NL, NL>>) /\ StartsWith(after, <<NL>>)
  THEN before \o SubstringFrom(after, 1)
  ELSE before \o after

deleteEntrySpan(text, span) ==
  DeleteAt(Substring(text, 0, span.start), SubstringFrom(text, span.end + 1))

getEntryBlockText(text, span) == Substring(text, span.start, span.end + 1)

\* The archive section added when there is none (lines 633-635)
WithArchive(newText, archiveStartOffset) ==
  IF archiveStartOffset < 0
  THEN TrimEnd(newText) \o <<NL, NL>> \o ARCHIVE_SEPARATOR \o <<NL>>
       \o ARCHIVE_HEADING \o <<NL, NL>>
  ELSE newText

\* The block is moved whether or not the entry is found
ArchiveUnchecked(text, span, parsed) ==
  TrimEnd(WithArchive(deleteEntrySpan(text, span), parsed.archiveStartOffset))
  \o <<NL>> \o Substring(text, span.start, span.end + 1) \o <<NL>>

ArchiveParsed(text, span, parsed) ==
  IF FindIn(parsed.entries, span.id) = 0 THEN text
  ELSE TrimEnd(WithArchive(deleteEntrySpan(text, span), parsed.archiveStartOffset))
       \o <<NL>> \o Substring(text, span.start, span.end + 1) \o <<NL>>

\* moveToArchive(text, span, "HH:mm")
moveToArchive(text, span, now, picks) ==
  ArchiveParsed(text, span, parseMomentsDoc(text, now, picks))

\* createBasicFrontmatter(), with the key shortened to one letter
createBasicFrontmatter ==
  <<"-","-","-",NL,"k",":"," ","t","r","u","e",NL,"-","-","-",NL,NL>>

(***************************************************************************)
(* The outcomes of the random draws of one parse                           *)
(***************************************************************************)
\* How often a parse of text calls generateBlockId: once per block without
\* an identity marker, whatever the ids are
NeededPicks(text, now) == parseMomentsDoc(text, now, <<>>).gen

PickPool(now) == RandomIds \cup FallbackIds(now)

\* The sequences of n ids generateBlockId can return during a parse of text
PicksAmong(text, now, n) ==
  {p \in [1..n -> PickPool(now)] : parseMomentsDoc(text, now, p).genOk}

PicksOf(text, now) == PicksAmong(text, now, NeededPicks(text, now))

\* The documents parseMomentsDoc(text, "HH:mm") can return at time now
ParsesAmong(text, now, n) ==
  {d \in {parseMomentsDoc(text, now, p) : p \in [1..n -> PickPool(now)]} : d.genOk}

Parses(text, now) == ParsesAmong(text, now, NeededPicks(text, now))

(***************************************************************************)
(* Input texts: up to MaxChunks pieces of a document, one after another    *)
(***************************************************************************)
MaxChunks == 2

ChunkFrontmatter == <<"-","-","-",NL,"k",":"," ","t","r","u","e",NL,"-","-","-",NL>>
ChunkBlank == <<NL>>
ChunkEntryA == <<"-"," ","0","9",":","1","5"," ","a",NL,
                 " "," ","^","m","-","a","a","a","a","a","a",NL>>
ChunkEntryB == <<"-"," ","0","9",":","1","6"," ","b",NL," "," ","c",NL,
                 " "," ","^","m","-","b","b","b","b","b","b",NL>>
ChunkNoId == <<"-"," ","d",NL>>
ChunkSeparator == <<"*","*","*",NL>>
ChunkHeading == <<"#","#"," ","A","r","c","h","i","v","e",NL>>
ChunkText == <<"x",NL>>
ChunkInline == <<"-"," ","e"," ","^","m","-","a","a","a","a","a","a",NL>>
ChunkIndented == <<" "," ","f",NL>>
ChunkArchived == <<"*","*","*",NL,"#","#"," ","A","r","c","h","i","v","e",NL,NL,
                   "-"," ","0","9",":","1","4"," ","g",NL,
                   " "," ","^","m","-","g","g","g","g","g","g",NL>>

Chunks == {ChunkFrontmatter, ChunkBlank, ChunkEntryA, ChunkEntryB, ChunkNoId,
           ChunkSeparator, ChunkHeading, ChunkText, ChunkInline, ChunkIndented,
           ChunkArchived}

RECURSIVE ChunkTexts(_)
ChunkTexts(n) ==
  IF n = 0 THEN {<<>>}
  ELSE ChunkTexts(n - 1) \cup {t \o c : t \in ChunkTexts(n - 1), c \in Chunks}

\* with and without the newline that ends the last line
Texts ==
  ChunkTexts(MaxChunks)
  \cup {SubSeq(t, 1, Len(t) - 1) : t \in ChunkTexts(MaxChunks) \ {<<>>}}

\* The contents given to insertEntry
ContentPlain == <<"x">>
ContentLines2 == <<"x",NL,NL,"y">>
ContentLeadingSpace == <<" ","x">>
ContentMarker == <<"x"," ","^","m","-","b","b","b","b","b","b">>
ContentRule == <<"x",NL,"*","*","*">>

Contents == {ContentPlain, ContentLines2, ContentLeadingSpace, ContentMarker,
             ContentRule}

\* The contents given to replaceEntrySpan
ReplaceContents == {ContentPlain, ContentLines2, ContentRule}

\* An id that no block of the texts carries
IdStale == <<"m","-","s","s","s","s","s","s">>

\* The spans a caller holds that are not of the text: the place of a span
\* of the parse under the id of an entry that is gone
StaleSpans(d) == {[d.spans[i] EXCEPT !.id = IdStale] : i \in 1..Len(d.spans)}

\* The spans given to replaceEntrySpan: those of the parse and the stale
SpanArgs(d) == {d.spans[i] : i \in 1..Len(d.spans)} \cup StaleSpans(d)

\* The content given to insertEntry and the id generateBlockId() returns for
\* the new block: a fresh id, or one that a block of the text has already
InsertArgs ==
  {[content |-> c, newId |-> IdC] : c \in Contents}
  \cup {[content |-> ContentPlain, newId |-> IdA]}

(***************************************************************************)
(* State                                                                   *)
(***************************************************************************)
VARIABLES
  clock,         \* Date.now(), in ticks since the start of the day
  doc,           \* parseMomentsDoc(text) of the text a format function is given
  op,            \* the format function applied and its arguments
  docOut,        \* parseMomentsDoc(out) of the text the function returned
  file,          \* the contents of the backing file
  settings,      \* MomentsStateManager.settings
  parsed,        \* MomentsStateManager.parsed: <<>> for null, or <<document>>
  writeQueue,    \* the cycles chained on MomentsStateManager.writeQueue, in
                 \* request order, the completed ones included
  selfModified,  \* MomentsStateManager.selfModified
  lastDeleted,   \* MomentsStateManager.lastDeleted: <<>> for null, or <<info>>
  pending,       \* modify events for changes of other writers, not yet delivered
  reloads,       \* the calls of reload() that await their read
  history        \* what has happened: counts of calls and of events

fmtVars == <<doc, op, docOut>>

mgrVars == <<file, settings, parsed, writeQueue, selfModified, lastDeleted,
             pending, reloads, history>>

vars == <<clock, doc, op, docOut, file, settings, parsed, writeQueue,
          selfModified, lastDeleted, pending, reloads, history>>

\* The text the format function is applied to, and the text it returned
text == doc.originalText

out == docOut.originalText

NoSpan == [id |-> Null, start |-> 0, end |-> 0]

NoOp == [name |-> "none", content |-> <<>>, position |-> "none",
         id |-> Null, span |-> NoSpan, keep |-> FALSE, picks |-> <<>>]

\* 09:17:30 with two ticks a minute
FmtClock == 1115

(***************************************************************************)
(* The format functions applied to a text                                  *)
(***************************************************************************)
\* The state manager before anything is asked of it
NoHistory ==
  [file0 |-> <<>>, initialized |-> FALSE, events |-> 0, externalWrites |-> 0,
   failures |-> 0, ticks |-> 0, undoCalls |-> 0, undoTrue |-> 0,
   undoQueued |-> 0, deleteRecord |-> <<>>, notified |-> 0]

DEFAULT_SETTINGS ==
  [insertion |-> "prepend", trimInput |-> TRUE, softDeleteToArchive |-> FALSE]

MgrIdle ==
  /\ file = <<>>
  /\ settings = DEFAULT_SETTINGS
  /\ parsed = <<>>
  /\ writeQueue = <<>>
  /\ selfModified = FALSE
  /\ lastDeleted = <<>>
  /\ pending = 0
  /\ reloads = <<>>
  /\ history = NoHistory

FmtInit ==
  /\ clock = FmtClock
  /\ \E t \in Texts : doc \in Parses(t, clock)
  /\ op = NoOp
  /\ docOut = EmptyDoc(<<>>)
  /\ MgrIdle

\* insertEntry(text, c, position, "HH:mm")
FmtInsert ==
  /\ op.name = "none"
  /\ \E a \in InsertArgs, position \in {"prepend", "append"} :
       /\ generateBlockIdAny(a.newId)
       /\ docOut' \in Parses(insertEntry(text, a.content, position, clock, a.newId), clock)
       /\ op' = [NoOp EXCEPT !.name = "insert", !.content = a.content,
                             !.position = position, !.id = a.newId]
  /\ UNCHANGED <<clock, doc>>
  /\ UNCHANGED mgrVars

\* deleteEntrySpan(text, span) for a span of the parse of text
FmtDelete ==
  /\ op.name = "none"
  /\ \E i \in 1..Len(doc.spans) :
       /\ docOut' \in Parses(deleteEntrySpan(text, doc.spans[i]), clock)
       /\ op' = [NoOp EXCEPT !.name = "delete", !.id = doc.spans[i].id,
                             !.span = doc.spans[i]]
  /\ UNCHANGED <<clock, doc>>
  /\ UNCHANGED mgrVars

\* moveToArchive(text, span, "HH:mm") for a span of the parse of text
FmtArchive ==
  /\ op.name = "none"
  /\ \E i \in 1..Len(doc.spans), p \in PicksOf(text, clock) :
       /\ docOut' \in Parses(moveToArchive(text, doc.spans[i], clock, p), clock)
       /\ op' = [NoOp EXCEPT !.name = "archive", !.id = doc.spans[i].id,
                             !.span = doc.spans[i], !.picks = p]
  /\ UNCHANGED <<clock, doc>>
  /\ UNCHANGED mgrVars

\* replaceEntrySpan(text, span, c, "HH:mm", keep) for a span of the parse of
\* text or a stale span, p being the ids its parse of text generates
FmtReplace ==
  /\ op.name = "none"
  /\ \E span \in SpanArgs(doc), c \in ReplaceContents, keep \in BOOLEAN,
        p \in PicksOf(text, clock) :
       /\ docOut' \in Parses(replaceEntrySpan(text, span, c, keep, clock, p), clock)
       /\ op' = [NoOp EXCEPT !.name = "replace", !.content = c, !.id = span.id,
                             !.span = span, !.keep = keep, !.picks = p]
  /\ UNCHANGED <<clock, doc>>
  /\ UNCHANGED mgrVars

\* deleteEntrySpan(text, span) and moveToArchive(text, span, "HH:mm") for a
\* stale span
FmtStale ==
  /\ op.name = "none"
  /\ \E span \in StaleSpans(doc), p \in PicksOf(text, clock) :
       \/ /\ docOut' \in Parses(deleteEntrySpan(text, span), clock)
          /\ op' = [NoOp EXCEPT !.name = "deleteStale", !.id = span.id,
                                !.span = span]
       \/ /\ docOut' \in Parses(moveToArchive(text, span, clock, p), clock)
          /\ op' = [NoOp EXCEPT !.name = "archiveStale", !.id = span.id,
                                !.span = span, !.picks = p]
  /\ UNCHANGED <<clock, doc>>
  /\ UNCHANGED mgrVars

FmtNext == FmtInsert \/ FmtDelete \/ FmtArchive \/ FmtReplace \/ FmtStale

SpecFmt == FmtInit /\ [][FmtNext]_vars

(***************************************************************************)
(* Prepends and deletions, one after another                               *)
(***************************************************************************)
\* The lines of a text, without the empty piece after a final newline
TextLines(t) ==
  IF t # <<>> /\ t[Len(t)] = NL THEN Split(SubSeq(t, 1, Len(t) - 1)) ELSE Split(t)

\* Two blank lines of t, one after the other
DoubleBlank(t) ==
  \E i \in 1..(Len(TextLines(t)) - 1) :
    Trim(TextLines(t)[i]) = <<>> /\ Trim(TextLines(t)[i + 1]) = <<>>

\* A file with a blank line before its entry and one after it
SeqSpaced == createBasicFrontmatter \o ChunkEntryA \o ChunkBlank

\* The texts a sequence starts from: those with blank lines around an entry,
\* the file createBasicFrontmatter makes,
\* and the input texts with frontmatter and without two blank lines in a row
SeqTexts ==
  {createBasicFrontmatter, SeqSpaced \o ChunkEntryB, SeqSpaced \o ChunkText}
  \cup {t \in Texts : StartsWith(t, ChunkFrontmatter) /\ ~DoubleBlank(t)}

\* How many entries and how many characters a text has at most when a
\* prepend is made
MaxSeqEntries == 2

MaxSeqLen == 46

\* The content given to insertEntry and the id generateBlockId() returns
SeqArgs ==
  {[content |-> c, newId |-> IdC] : c \in {ContentPlain, ContentLines2, ContentRule}}
  \cup {[content |-> ContentPlain, newId |-> IdA]}

SeqInit ==
  /\ clock = FmtClock
  /\ \E t \in SeqTexts : doc \in Parses(t, clock)
  /\ docOut = doc
  /\ op = NoOp
  /\ MgrIdle

\* insertEntry(out, c, "prepend", "HH:mm") on the text the last call returned
SeqPrepend ==
  /\ Len(docOut.spans) < MaxSeqEntries
  /\ Len(out) <= MaxSeqLen
  /\ \E a \in SeqArgs :
       /\ generateBlockIdAny(a.newId)
       /\ docOut' \in Parses(insertEntry(out, a.content, "prepend", clock, a.newId), clock)
       /\ op' = [NoOp EXCEPT !.name = "insert", !.content = a.content,
                             !.position = "prepend", !.id = a.newId]
  /\ UNCHANGED <<clock, doc>>
  /\ UNCHANGED mgrVars

\* deleteEntrySpan(out, span) for a span of the parse of the text the last
\* call returned
SeqDelete ==
  /\ \E i \in 1..Len(docOut.spans) :
       /\ docOut' \in Parses(deleteEntrySpan(out, docOut.spans[i]), clock)
       /\ op' = [NoOp EXCEPT !.name = "delete", !.id = docOut.spans[i].id,
                             !.span = docOut.spans[i]]
  /\ UNCHANGED <<clock, doc>>
  /\ UNCHANGED mgrVars

SeqNext == SeqPrepend \/ SeqDelete

SpecSeq == SeqInit /\ [][SeqNext]_vars

(***************************************************************************)
(* The parser applied to a text                                            *)
(***************************************************************************)
MaxParseChunks == 3

\* Blocks without text: the marker alone on the line of the item, an item
\* without text, and a marker on a line of its own
ChunkMarkerOnly == <<"-"," ","^","m","-","a","a","a","a","a","a",NL>>
ChunkEmptyItem == <<"-"," ",NL>>
ChunkMarkerLine == <<" "," ","^","m","-","b","b","b","b","b","b",NL>>

\* A line of three asterisks inside a block
ChunkIndentedRule == <<" "," ","*","*","*",NL>>

ParseChunks ==
  {ChunkFrontmatter, ChunkBlank, ChunkEntryA, ChunkEntryB, ChunkNoId,
   ChunkSeparator, ChunkHeading, ChunkText, ChunkInline, ChunkIndented,
   ChunkMarkerOnly, ChunkEmptyItem, ChunkMarkerLine, ChunkIndentedRule}

RECURSIVE ParseChunkTexts(_)
ParseChunkTexts(n) ==
  IF n = 0 THEN {<<>>}
  ELSE ParseChunkTexts(n - 1)
       \cup {t \o c : t \in ParseChunkTexts(n - 1), c \in ParseChunks}

\* with and without the newline that ends the last line
ParseTexts ==
  ParseChunkTexts(MaxParseChunks)
  \cup {SubSeq(t, 1, Len(t) - 1) : t \in ParseChunkTexts(MaxParseChunks) \ {<<>>}}

ParseInit ==
  /\ clock = FmtClock
  /\ doc = EmptyDoc(<<>>)
  /\ op = NoOp
  /\ docOut = EmptyDoc(<<>>)
  /\ MgrIdle

\* parseMomentsDoc(t, "HH:mm")
ParseText ==
  /\ op.name = "none"
  /\ \E t \in ParseTexts : doc' \in Parses(t, clock)
  /\ op' = [NoOp EXCEPT !.name = "parse"]
  /\ UNCHANGED <<clock, docOut>>
  /\ UNCHANGED mgrVars

ParseNext == ParseText

SpecParse == ParseInit /\ [][ParseNext]_vars

(***************************************************************************)
(* MomentsStateManager                                                     *)
(***************************************************************************)
\* The calls of the state manager, the failures of the vault, the changes
\* of other writers and the passages of time of one run, together
MaxEvents == 3
MaxExternal == 1
MaxFailures == 1
MaxTicks == 1
MaxReloads == 1

\* 10:00:00
MgrClock == 1200

\* 5 * 60 * 1000 milliseconds, in ticks
UNDO_WINDOW == 5 * TicksPerMinute

\* The files the state manager is opened on: with frontmatter and a blank
\* line between the blocks, and without either
FileFrontmatter == createBasicFrontmatter \o ChunkEntryA \o ChunkBlank \o ChunkEntryB

FilePlain == ChunkEntryA \o ChunkEntryB

Files == {FileFrontmatter, FilePlain}

\* What another writer puts in the file
FileExternal == <<"-"," ","0","9",":","1","4"," ","g",NL,
                  " "," ","^","m","-","g","g","g","g","g","g",NL>>

\* The arguments of addEntry and updateEntry
AddContents == {ContentPlain, ContentLeadingSpace}

UpdateContent == <<"y">>

\* A cycle of queueWrite: the transform with what its closure holds (content,
\* span, block), where the cycle stands (pc), the result of its read (ok,
\* data) and of its write (ok, newContent).  spanText is the text the span
\* was computed from; waited says that an earlier cycle had not ended at the
\* request, applied that the transform was called, wrote that the write
\* changed the file.
NewCycle(kind, content, span, spanText, block) ==
  [kind |-> kind, content |-> content, span |-> span, spanText |-> spanText,
   block |-> block, pc |-> "queued", ok |-> TRUE, data |-> <<>>,
   newContent |-> <<>>, applied |-> FALSE, wrote |-> FALSE,
   waited |-> \E j \in 1..Len(writeQueue) : writeQueue[j].pc # "done"]

\* A call of reload() that awaits readMomentsFile: vault.read returns the
\* contents the file has when it is called (data), or it throws (~ok)
NewReload(ok, data) == [ok |-> ok, data |-> data]

Remove(seq, k) == SubSeq(seq, 1, k - 1) \o SubSeq(seq, k + 1, Len(seq))

\* The callback of every cycle is run at once, chained on nothing
CanStartUnchained(queue, i) == TRUE

\* The callback runs only after cycles that did not fail
CanStartAfterSuccess(queue, i) ==
  \A j \in 1..(i - 1) : queue[j].pc = "done" /\ queue[j].ok

\* this.writeQueue.then(...): the callback runs once the promise it is
\* chained on has settled, that is once every earlier cycle has ended
CanStart(queue, i) == \A j \in 1..(i - 1) : queue[j].pc = "done"

\* content.trim() when settings.trimInput
TrimInput(content) == IF settings.trimInput THEN Trim(content) ELSE content

MgrInit ==
  /\ clock = MgrClock
  /\ file \in Files
  /\ settings \in [insertion : {DEFAULT_SETTINGS.insertion},
                   trimInput : {DEFAULT_SETTINGS.trimInput},
                   softDeleteToArchive : BOOLEAN]
  /\ parsed = <<>>
  /\ writeQueue = <<>>
  /\ selfModified = FALSE
  /\ lastDeleted = <<>>
  /\ pending = 0
  /\ reloads = <<>>
  /\ history = [NoHistory EXCEPT !.file0 = file]
  /\ doc = EmptyDoc(<<>>)
  /\ op = NoOp
  /\ docOut = EmptyDoc(<<>>)

\* initialize(): reload() up to its await, where vault.read returns the
\* contents of the file or throws
Initialize ==
  /\ ~history.initialized
  /\ \/ /\ reloads' = Append(reloads, NewReload(TRUE, file))
        /\ history' = [history EXCEPT !.initialized = TRUE]
     \/ /\ history.failures < MaxFailures /\ history.events < MaxEvents
        /\ reloads' = Append(reloads, NewReload(FALSE, <<>>))
        /\ history' = [history EXCEPT !.initialized = TRUE, !.failures = @ + 1,
                                      !.events = @ + 1]
  /\ UNCHANGED <<clock, file, settings, parsed, writeQueue, selfModified,
                 lastDeleted, pending>>
  /\ UNCHANGED fmtVars

\* addEntry(content) up to the await of queueWrite
AddEntry ==
  /\ parsed # <<>>
  /\ history.events < MaxEvents
  /\ \E content \in AddContents :
       /\ TrimInput(content) # <<>>
       /\ writeQueue' = Append(writeQueue,
                               NewCycle("add", TrimInput(content), NoSpan, <<>>, <<>>))
  /\ history' = [history EXCEPT !.events = @ + 1]
  /\ UNCHANGED <<clock, file, settings, parsed, selfModified, lastDeleted,
                 pending, reloads>>
  /\ UNCHANGED fmtVars

\* updateEntry(id, newContent) up to the await of queueWrite
UpdateEntry ==
  /\ parsed # <<>>
  /\ history.events < MaxEvents
  /\ \E id \in SpanIds(parsed[1].spans) :
       /\ TrimInput(UpdateContent) # <<>>
       /\ writeQueue' = Append(writeQueue,
                               NewCycle("update", TrimInput(UpdateContent),
                                        GetSpan(parsed[1].spans, id),
                                        parsed[1].originalText, <<>>))
  /\ history' = [history EXCEPT !.events = @ + 1]
  /\ UNCHANGED <<clock, file, settings, parsed, selfModified, lastDeleted,
                 pending, reloads>>
  /\ UNCHANGED fmtVars

\* The DeletedEntryInfo of deleteEntry (lines 188-213), index being the
\* place of the entry in entries, from 1, or 0
DeletedInfo(d, span, index, now) ==
  [entryBlock |-> getEntryBlockText(d.originalText, span),
   insertionHint |-> IF index > 1 THEN "afterId" ELSE "prepend",
   afterId |-> IF index > 1 THEN d.entries[index - 1].id ELSE Null,
   deletedAt |-> now]

\* deleteEntry(id) from line 208, info being the DeletedEntryInfo
DeleteWith(span, info) ==
  /\ lastDeleted' = <<info>>
  /\ writeQueue' = Append(writeQueue,
                          NewCycle(IF settings.softDeleteToArchive
                                   THEN "archive" ELSE "delete",
                                   <<>>, span, parsed[1].originalText, <<>>))
  /\ history' = [history EXCEPT !.events = @ + 1, !.undoCalls = 0,
                                !.undoTrue = 0, !.undoQueued = 0,
                                !.deleteRecord = <<info>>]

\* deleteEntry(id) up to the await of queueWrite
DeleteEntry ==
  /\ parsed # <<>>
  /\ history.events < MaxEvents
  /\ \E id \in SpanIds(parsed[1].spans) :
       DeleteWith(GetSpan(parsed[1].spans, id),
                  DeletedInfo(parsed[1], GetSpan(parsed[1].spans, id),
                              FindIn(parsed[1].entries, id), clock))
  /\ UNCHANGED <<clock, file, settings, parsed, selfModified, pending, reloads>>
  /\ UNCHANGED fmtVars

\* The record is left in place when it is taken
TakeDeletedKept(deleted) == <<deleted>>

\* this.lastDeleted = null (line 239), the record being taken
TakeDeleted(deleted) == <<>>

\* The record has expired as soon as the five minutes have passed
ExpiredAtWindow(deleted, now) == now - deleted.deletedAt >= UNDO_WINDOW

\* Date.now() - this.lastDeleted.deletedAt > 5 * 60 * 1000
Expired(deleted, now) == now - deleted.deletedAt > UNDO_WINDOW

\* canUndo()
canUndo ==
  IF lastDeleted = <<>> THEN FALSE
  ELSE clock - lastDeleted[1].deletedAt <= UNDO_WINDOW

\* undoLastDelete() up to the await of queueWrite: false without a record,
\* false and the record cleared when it has expired, else the record is
\* taken and its block queued for insertion; that call is the one that
\* returns true, once its cycle has ended (undoTrue counts it when it
\* takes the record)
UndoLastDelete ==
  /\ history.events < MaxEvents
  /\ IF lastDeleted = <<>>
     THEN /\ history' = [history EXCEPT !.events = @ + 1, !.undoCalls = @ + 1]
          /\ UNCHANGED <<lastDeleted, writeQueue>>
     ELSE IF Expired(lastDeleted[1], clock)
     THEN /\ lastDeleted' = <<>>
          /\ history' = [history EXCEPT !.events = @ + 1, !.undoCalls = @ + 1]
          /\ UNCHANGED writeQueue
     ELSE /\ lastDeleted' = TakeDeleted(lastDeleted[1])
          /\ writeQueue' = Append(writeQueue,
                                  NewCycle("undo", <<>>, NoSpan, <<>>,
                                           lastDeleted[1].entryBlock))
          /\ history' = [history EXCEPT !.events = @ + 1, !.undoCalls = @ + 1,
                                        !.undoTrue = @ + 1, !.undoQueued = @ + 1]
  /\ UNCHANGED <<clock, file, settings, parsed, selfModified, pending, reloads>>
  /\ UNCHANGED fmtVars

\* The loop of the transform of undoLastDelete (lines 247-260): insertIndex
RECURSIVE UndoInsertIndex(_, _, _)
UndoInsertIndex(lines, i, inFrontmatter) ==
  IF i > Len(lines) THEN 0
  ELSE IF Trim(lines[i]) = <<"-", "-", "-">>
       THEN IF inFrontmatter THEN i
            ELSE UndoInsertIndex(lines, i + 1, TRUE)
       ELSE UndoInsertIndex(lines, i + 1, inFrontmatter)

\* lines.splice(start, 0, "", entryBlock), start being within the array
UndoSplice(lines, start, entryBlock) ==
  SubSeq(lines, 1, start) \o <<<<>>, entryBlock>> \o SubSeq(lines, start + 1, Len(lines))

UndoLines(lines, entryBlock) ==
  UndoSplice(lines, SetMin({UndoInsertIndex(lines, 1, FALSE) + 1, Len(lines)}),
             entryBlock)

\* The transform of undoLastDelete
UndoTransform(currentText, entryBlock) == Join(UndoLines(Split(currentText), entryBlock))

\* The transform of a cycle applied to the text read, draws being the ids
\* generateBlockId returns during it
Transform(cycle, currentText, now, draws) ==
  IF cycle.kind = "add"
  THEN insertEntry(currentText, cycle.content, settings.insertion, now, draws[1])
  ELSE IF cycle.kind = "update"
  THEN replaceEntrySpan(currentText, cycle.span, cycle.content, TRUE, now, draws)
  ELSE IF cycle.kind = "archive"
  THEN moveToArchive(currentText, cycle.span, now, draws)
  ELSE IF cycle.kind = "delete"
  THEN deleteEntrySpan(currentText, cycle.span)
  ELSE UndoTransform(currentText, cycle.block)

\* The callback of a cycle starts: readMomentsFile is called and vault.read
\* returns the contents the file has then, or throws
CycleStart(i) ==
  /\ writeQueue[i].pc = "queued"
  /\ CanStart(writeQueue, i)
  /\ \/ /\ writeQueue' = [writeQueue EXCEPT ![i].pc = "read", ![i].data = file]
        /\ UNCHANGED history
     \/ /\ history.failures < MaxFailures /\ history.events < MaxEvents
        /\ writeQueue' = [writeQueue EXCEPT ![i].pc = "read", ![i].ok = FALSE]
        /\ history' = [history EXCEPT !.failures = @ + 1, !.events = @ + 1]
  /\ UNCHANGED <<clock, file, settings, parsed, selfModified, lastDeleted,
                 pending, reloads>>
  /\ UNCHANGED fmtVars

\* The ids generateBlockId can return during the transform of a cycle: the
\* id of the new block, or the ids of the parse of the text
TransformDraws(cycle, currentText, now) ==
  IF cycle.kind = "add" THEN {<<id>> : id \in {r \in RandomIds : generateBlockIdAny(r)}}
  ELSE IF cycle.kind \in {"update", "archive"} THEN PicksOf(currentText, now)
  ELSE {<<>>}

\* The cycle from the result of its read to the call of writeMomentsFile
\* (lines 305-317); a failed read ends the cycle through finally
CycleTransform(i) ==
  /\ writeQueue[i].pc = "read"
  /\ IF writeQueue[i].ok
     THEN /\ \E draws \in TransformDraws(writeQueue[i], writeQueue[i].data, clock) :
               writeQueue' =
                 [writeQueue EXCEPT
                    ![i].pc = "writing", ![i].applied = TRUE,
                    ![i].newContent = Transform(writeQueue[i], writeQueue[i].data,
                                                clock, draws)]
          /\ selfModified' = TRUE
     ELSE /\ writeQueue' = [writeQueue EXCEPT ![i].pc = "done"]
          /\ selfModified' = FALSE
  /\ UNCHANGED <<clock, file, settings, parsed, lastDeleted, pending, reloads,
                 history>>
  /\ UNCHANGED fmtVars

\* onExternalModify() up to the await of reload(), vault.read returning the
\* contents of the file
ModifyEvent(rs, flag, data) == IF flag THEN rs ELSE Append(rs, NewReload(TRUE, data))

\* vault.modify of a cycle changes the file and the vault triggers its
\* modify event before the call returns, or vault.modify throws
CycleWrite(i) ==
  /\ writeQueue[i].pc = "writing"
  /\ \/ /\ writeQueue' = [writeQueue EXCEPT ![i].pc = "written", ![i].wrote = TRUE]
        /\ file' = writeQueue[i].newContent
        /\ reloads' = ModifyEvent(reloads, selfModified, writeQueue[i].newContent)
        /\ UNCHANGED history
     \/ /\ history.failures < MaxFailures /\ history.events < MaxEvents
        /\ writeQueue' = [writeQueue EXCEPT ![i].pc = "written", ![i].ok = FALSE]
        /\ history' = [history EXCEPT !.failures = @ + 1, !.events = @ + 1]
        /\ UNCHANGED <<file, reloads>>
  /\ UNCHANGED <<clock, settings, parsed, selfModified, lastDeleted, pending>>
  /\ UNCHANGED fmtVars

\* The end of a cycle without the finally block after a failed write
CycleFinishNoFinally(i) ==
  /\ writeQueue[i].pc = "written"
  /\ IF writeQueue[i].ok
     THEN /\ \E d \in Parses(writeQueue[i].newContent, clock) : parsed' = <<d>>
          /\ history' = [history EXCEPT !.notified = @ + 1]
          /\ selfModified' = FALSE
     ELSE UNCHANGED <<parsed, history, selfModified>>
  /\ writeQueue' = [writeQueue EXCEPT ![i].pc = "done"]
  /\ UNCHANGED <<clock, file, settings, lastDeleted, pending, reloads>>
  /\ UNCHANGED fmtVars

\* The cycle from the result of its write to its end (lines 318-329)
CycleFinish(i) ==
  /\ writeQueue[i].pc = "written"
  /\ IF writeQueue[i].ok
     THEN /\ \E d \in Parses(writeQueue[i].newContent, clock) : parsed' = <<d>>
          /\ history' = [history EXCEPT !.notified = @ + 1]
     ELSE UNCHANGED <<parsed, history>>
  /\ selfModified' = FALSE
  /\ writeQueue' = [writeQueue EXCEPT ![i].pc = "done"]
  /\ UNCHANGED <<clock, file, settings, lastDeleted, pending, reloads>>
  /\ UNCHANGED fmtVars

\* The vault delivers the modify event of a change another writer made:
\* onExternalModify() up to the await of reload(), where vault.read returns
\* the contents of the file or throws
OnExternalModify ==
  /\ pending > 0
  /\ pending' = pending - 1
  /\ IF selfModified
     THEN UNCHANGED <<reloads, history>>
     ELSE /\ Len(reloads) < MaxReloads
          /\ \/ /\ reloads' = Append(reloads, NewReload(TRUE, file))
                /\ UNCHANGED history
             \/ /\ history.failures < MaxFailures /\ history.events < MaxEvents
                /\ reloads' = Append(reloads, NewReload(FALSE, <<>>))
                /\ history' = [history EXCEPT !.failures = @ + 1, !.events = @ + 1]
  /\ UNCHANGED <<clock, file, settings, parsed, writeQueue, selfModified,
                 lastDeleted>>
  /\ UNCHANGED fmtVars

\* reload() from the result of its read (lines 71-74)
ReloadFinish(k) ==
  /\ IF reloads[k].ok
     THEN /\ \E d \in Parses(reloads[k].data, clock) : parsed' = <<d>>
          /\ history' = [history EXCEPT !.notified = @ + 1]
     ELSE UNCHANGED <<parsed, history>>
  /\ reloads' = Remove(reloads, k)
  /\ UNCHANGED <<clock, file, settings, writeQueue, selfModified, lastDeleted,
                 pending>>
  /\ UNCHANGED fmtVars

\* Another writer replaces the contents of the file
ExternalWrite ==
  /\ history.externalWrites < MaxExternal /\ history.events < MaxEvents
  /\ file # FileExternal
  /\ file' = FileExternal
  /\ pending' = pending + 1
  /\ history' = [history EXCEPT !.externalWrites = @ + 1, !.events = @ + 1]
  /\ UNCHANGED <<clock, settings, parsed, writeQueue, selfModified, lastDeleted,
                 reloads>>
  /\ UNCHANGED fmtVars

\* Time passes while a deleted entry can be restored: the time it can be
\* restored for, or half a minute more
Tick ==
  /\ history.ticks < MaxTicks /\ history.events < MaxEvents
  /\ lastDeleted # <<>>
  /\ \E d \in {UNDO_WINDOW, UNDO_WINDOW + 1} : clock' = clock + d
  /\ history' = [history EXCEPT !.ticks = @ + 1, !.events = @ + 1]
  /\ UNCHANGED <<file, settings, parsed, writeQueue, selfModified, lastDeleted,
                 pending, reloads>>
  /\ UNCHANGED fmtVars

Cycle ==
  \E i \in 1..Len(writeQueue) :
    \/ CycleStart(i)
    \/ CycleTransform(i)
    \/ CycleWrite(i)
    \/ CycleFinish(i)

Reload == \E k \in 1..Len(reloads) : ReloadFinish(k)

Next ==
  \/ Initialize
  \/ AddEntry
  \/ UpdateEntry
  \/ DeleteEntry
  \/ UndoLastDelete
  \/ Cycle
  \/ OnExternalModify
  \/ Reload
  \/ ExternalWrite
  \/ Tick

Spec == MgrInit /\ [][Next]_vars

(***************************************************************************)
(* Properties of the format functions                                      *)
(***************************************************************************)
\* entries and archiveEntries, one after the other
AllEntries(d) == d.entries \o d.archiveEntries

Count(d) == Len(d.entries) + Len(d.archiveEntries)

Raws(es) == [i \in 1..Len(es) |-> es[i].raw]

WithId(es, id) == {i \in 1..Len(es) : es[i].id = id}

\* A content as the callers of insertEntry pass it: trimmed, not empty and
\* without a block id
PlainContent(c) ==
  /\ c # <<>>
  /\ Trim(c) = c
  /\ stripBlockIdFromContent(c).blockId = Null

\* C1: for every text, position and content (trimmed, without block id),
\* the parse of insertEntry(text, c, position) has one entry more than the
\* parse of text, entries and archiveEntries counted, and the added entry,
\* the one with the new id, has raw = c.
C1_InsertRoundTrip ==
  (op.name = "insert" /\ PlainContent(op.content)) =>
    /\ Count(docOut) = Count(doc) + 1
    /\ \E i \in WithId(AllEntries(docOut), op.id) :
         AllEntries(docOut)[i].raw = op.content

\* No id of the parse was drawn at random: every block has its marker
NoneSynthesized(d) == \A i \in 1..Count(d) : ~AllEntries(d)[i].idMissing

\* C2: for every text and every entry X of its parse, the parse of
\* deleteEntrySpan(text, spans[X]) has no entry with id X, and the entries
\* that survive have, in order, the raw values the other entries had.
\* Stated for the texts whose blocks all carry their identity marker, where
\* the ids of two parses are the same ids.
C2_DeleteThenMiss ==
  (op.name = "delete" /\ NoneSynthesized(doc)) =>
    /\ WithId(AllEntries(docOut), op.id) = {}
    /\ Raws(AllEntries(docOut))
         = Raws(SelectSeq(AllEntries(doc), LAMBDA e : e.id # op.id))

\* C3: for every active entry X of the parse of a text, the parse of
\* moveToArchive(text, spans[X]) has X with the same raw in archiveEntries
\* and not in entries, and as many entries in all as before.
C3_ArchivePreserves ==
  (op.name = "archive" /\ WithId(doc.entries, op.id) # {}) =>
    /\ \E i \in WithId(docOut.archiveEntries, op.id) :
         \E j \in WithId(doc.entries, op.id) :
           docOut.archiveEntries[i].raw = doc.entries[j].raw
    /\ WithId(docOut.entries, op.id) = {}
    /\ Count(docOut) = Count(doc)

IdsDistinct(d) ==
  \A i, j \in 1..Count(d) :
    i # j => AllEntries(d)[i].id # AllEntries(d)[j].id

\* C4: the ids of the entries of a parse are pairwise distinct, entries and
\* archiveEntries taken together.  Stated for the parses that synthesized no
\* id, where the ids are the ones written in the text.
C4_IdsUnique == NoneSynthesized(doc) => IdsDistinct(doc)

\* The lines of a block text, the newline that ends the last one aside
BlockLines(b) ==
  IF EndsWith(b, <<NL>>) THEN Split(SubSeq(b, 1, Len(b) - 1)) ELSE Split(b)

\* b is the block text of the entry e: it starts with the list marker, its
\* other lines keep the two-space prefix, its last line is the line of the
\* identity marker of e when e has one, and its content is the content of e
IsBlockOf(b, e) ==
  /\ StartsWith(b, <<"-", " ">>)
  /\ \A k \in 2..Len(BlockLines(b)) : StartsWith(BlockLines(b)[k], Indent)
  /\ e.idMissing \/ extractBlockId(BlockLines(b)[Len(BlockLines(b))]) = e.id
  /\ \E d \in Parses(b, e.createdAt) :
       /\ Count(d) = 1 /\ Len(d.entries) = 1
       /\ d.entries[1].rawWithPrefix = e.rawWithPrefix
       /\ d.entries[1].idMissing = e.idMissing

SpansExact(d) ==
  \A i \in 1..Count(d) :
    IsBlockOf(getEntryBlockText(d.originalText, GetSpan(d.spans, AllEntries(d)[i].id)),
              AllEntries(d)[i])

\* C5: for every entry of a parse, text.substring(span.start, span.end + 1)
\* is the block text of the entry, from its list marker through the line of
\* its identity marker, prefixes included, and nothing else.
C5_SpanExact == SpansExact(doc)

\* The parse of the text that the function applied made itself
OwnParse == parseMomentsDoc(text, clock, op.picks)

\* No entry of d has the id
MissingIn(d, id) == WithId(AllEntries(d), id) = {}

\* C13: when the id of the span is the id of no entry of the parse of the
\* text, replaceEntrySpan and deleteEntrySpan return the text unchanged.
C13_MissingTargetNoOp ==
  (\/ op.name = "replace" /\ MissingIn(OwnParse, op.id)
   \/ op.name = "deleteStale" /\ MissingIn(doc, op.id))
    => out = text

\* C14: when span.id is not the id of an active entry of the parse
\* moveToArchive makes of the text (no entry has it, or an archived one),
\* moveToArchive returns the text unchanged.
C14_ArchiveNoOp ==
  (op.name \in {"archive", "archiveStale"} /\ WithId(OwnParse.entries, op.id) = {})
    => out = text

\* moveToArchive was given the span of an entry that is archived only
C14_Witness ==
  /\ op.name = "archive"
  /\ WithId(OwnParse.entries, op.id) = {}
  /\ WithId(OwnParse.archiveEntries, op.id) # {}
  /\ out = text

\* Two lists of entries agree element by element in id, raw and createdAt
SameEntries(es, fs) ==
  /\ Len(es) = Len(fs)
  /\ \A i \in 1..Len(es) :
       /\ es[i].id = fs[i].id
       /\ es[i].raw = fs[i].raw
       /\ es[i].createdAt = fs[i].createdAt

\* C15: every parse of the text a parse was made of, at the same time and
\* with the same format, has the same entries and archiveEntries: the same
\* ids, raw values and createdAt, element by element.
C15_ParseDeterministic ==
  \A d \in Parses(text, clock) :
    /\ SameEntries(d.entries, doc.entries)
    /\ SameEntries(d.archiveEntries, doc.archiveEntries)

\* The createdAt a parse gives a block stamped at time now
FreshTimestamp(now) == parseTimestamp(formatTimestamp(now))

\* The entry at place k of before was replaced: after has as many entries
\* and archived entries, the others with the raw they had, in order, and
\* the one at k with the id, the content and the createdAt
ReplacedAt(before, after, k, id, content, createdAt) ==
  /\ Len(after.entries) = Len(before.entries)
  /\ Len(after.archiveEntries) = Len(before.archiveEntries)
  /\ \A i \in 1..Count(after) :
       IF i = k
       THEN /\ AllEntries(after)[i].id = id
            /\ AllEntries(after)[i].raw = content
            /\ AllEntries(after)[i].createdAt = createdAt
       ELSE /\ AllEntries(after)[i].raw = AllEntries(before)[i].raw
            /\ AllEntries(before)[i].idMissing
                 \/ AllEntries(after)[i].id = AllEntries(before)[i].id

\* C16: for an entry X of the parse of a text and its span, the parse of
\* replaceEntrySpan(text, span, c, fmt, keep) has the same number of entries
\* in the same order, the one at the place of X with id X and raw c, and
\* with the createdAt of X when keep is true, a fresh timestamp otherwise.
C16_ReplaceResult ==
  (op.name = "replace" /\ op.id # IdStale) =>
    \A k \in WithId(AllEntries(doc), op.id) :
      ReplacedAt(doc, docOut, k, op.id, op.content,
                 IF op.keep THEN AllEntries(doc)[k].createdAt
                 ELSE FreshTimestamp(clock))

\* The text before the span given to the function, and the text after it
Before == Substring(text, 0, op.span.start)

After == SubstringFrom(text, op.span.end + 1)

\* What the result has between the text before the span and the text after
Middle == SubSeq(out, Len(Before) + 1, Len(out) - Len(After))

\* The lines of a list item without their two-character prefixes
Unprefixed(ls) == [i \in 1..Len(ls) |-> SubstringFrom(ls[i], 2)]

\* b is a block rebuilt for the id and the content: a list item whose last
\* line is the identity marker and whose other lines are, after the
\* timestamp, the content
IsRebuilt(b, id, content) ==
  /\ StartsWith(b, <<"-", " ">>)
  /\ \A k \in 2..Len(BlockLines(b)) : StartsWith(BlockLines(b)[k], Indent)
  /\ Len(BlockLines(b)) >= 2
  /\ BlockLines(b)[Len(BlockLines(b))] = Indent \o <<"^">> \o id
  /\ SubstringFrom(Join(Unprefixed(SubSeq(BlockLines(b), 1, Len(BlockLines(b)) - 1))),
                   FormatLength + 1) = content

\* The block of the span t is in the result what it is in the text, at the
\* same place when it lies before the span given and moved with the text
\* when it lies after it
BlockKept(t) ==
  /\ t.end < op.span.start =>
       getEntryBlockText(out, t) = getEntryBlockText(text, t)
  /\ t.start > op.span.end =>
       getEntryBlockText(out, [t EXCEPT !.start = @ + Len(out) - Len(text),
                                        !.end = @ + Len(out) - Len(text)])
         = getEntryBlockText(text, t)

\* C17: replaceEntrySpan(text, span, ...) returns the text before span.start,
\* then the rebuilt block, then the text from span.end + 1: what is outside
\* the span is unchanged and in the same order, and the block of every other
\* entry is what it was.
C17_ReplaceFrame ==
  op.name = "replace" =>
    /\ Len(out) >= Len(Before) + Len(After)
    /\ out = Before \o Middle \o After
    /\ IsRebuilt(Middle, op.id, op.content)
    /\ \A i \in 1..Len(doc.spans) : BlockKept(doc.spans[i])

\* An entry with text before it and an entry after it was replaced
C17_Witness ==
  /\ op.name = "replace"
  /\ Before # <<>>
  /\ \E i \in 1..Len(doc.spans) : doc.spans[i].start > op.span.end
  /\ out # text

\* The entries of es from place i on are, with their ids and raw values and
\* in their order, among the entries of fs from place j on
RECURSIVE EmbedsFrom(_, _, _, _)
EmbedsFrom(es, fs, i, j) ==
  IF i > Len(es) THEN TRUE
  ELSE IF j > Len(fs) THEN FALSE
  ELSE IF es[i].id = fs[j].id /\ es[i].raw = fs[j].raw
       THEN EmbedsFrom(es, fs, i + 1, j + 1)
       ELSE EmbedsFrom(es, fs, i, j + 1)

Embeds(es, fs) == EmbedsFrom(es, fs, 1, 1)

\* C18: for every text whose blocks all carry their identity marker, every
\* entry of its parse is in the parse of insertEntry(text, c, position) with
\* the same id and raw and in the same list, active or archived, and the
\* entries keep their order.
C18_InsertKeepsEntries ==
  (op.name = "insert" /\ NoneSynthesized(doc)) =>
    /\ Embeds(doc.entries, docOut.entries)
    /\ Embeds(doc.archiveEntries, docOut.archiveEntries)

\* Two lists of entries have the same raw values in the same order, and the
\* same ids where the text has them
SameList(es, fs) ==
  /\ Len(es) = Len(fs)
  /\ \A i \in 1..Len(es) :
       /\ es[i].raw = fs[i].raw
       /\ es[i].idMissing \/ es[i].id = fs[i].id

\* C19: after insertEntry with position prepend the new entry is the first
\* of entries; with position append it is the last of entries, its block
\* ends before the archive separator when the text has one, and
\* archiveEntries is what it was.
C19_InsertPlacement ==
  op.name = "insert" =>
    /\ docOut.entries # <<>>
    /\ op.position = "prepend" => docOut.entries[1].id = op.id
    /\ op.position = "append" =>
         /\ docOut.entries[Len(docOut.entries)].id = op.id
         /\ doc.archiveStartOffset >= 0 =>
              /\ HasSpan(docOut.spans, op.id)
              /\ GetSpan(docOut.spans, op.id).end < docOut.archiveStartOffset
         /\ SameList(doc.archiveEntries, docOut.archiveEntries)

\* Where insertEntry inserts with position prepend: after the closing line
\* of the frontmatter, or at the start
InsertPoint == Clamp(SetMax({0, findFrontmatterEnd(text)}), Len(text))

\* The block insertEntry wrote
InsertedBlock == formatEntryAsListItem(createEntryBlock(op.content, clock, op.id))

\* pre ends with one blank line after its content, if it has any content
OneBlankAtEnd(pre) ==
  IsBlank(pre) \/ (EndsWith(pre, <<NL, NL>>) /\ ~EndsWith(pre, <<NL, NL, NL>>))

\* post starts with the end of a line and one blank line before its
\* content, if it has any content
OneBlankAtStart(post) ==
  IsBlank(post) \/ (StartsWith(post, <<NL, NL>>) /\ ~StartsWith(post, <<NL, NL, NL>>))

\* The result has the block at offset n, after what the text has before the
\* insertion point and before what it has after it, one blank line away
\* from the content on either side
PaddedAt(n) ==
  /\ n + Len(InsertedBlock) <= Len(out)
  /\ SubSeq(out, n + 1, n + Len(InsertedBlock)) = InsertedBlock
  /\ TrimEnd(SubSeq(out, 1, n)) = TrimEnd(Substring(text, 0, InsertPoint))
  /\ TrimStart(SubSeq(out, n + Len(InsertedBlock) + 1, Len(out)))
       = TrimStart(SubstringFrom(text, InsertPoint))
  /\ OneBlankAtEnd(SubSeq(out, 1, n))
  /\ OneBlankAtStart(SubSeq(out, n + Len(InsertedBlock) + 1, Len(out)))

\* C20: insertEntry with position prepend puts the block after the closing
\* line of the frontmatter (at the start without frontmatter), and exactly
\* one blank line separates it from the content before it and from the
\* content after it.
C20_PrependPadding ==
  (op.name = "insert" /\ op.position = "prepend") =>
    \E n \in 0..Len(out) : PaddedAt(n)

\* The text after the closing line of the frontmatter begins with more than
\* one blank line
WideGap(t) ==
  StartsWith(SubstringFrom(t, SetMax({0, findFrontmatterEnd(t)})), <<NL, NL>>)

\* C21: deleteEntrySpan, given a text without two blank lines in a row and a
\* span of its parse, returns a text without two blank lines in a row; and
\* after any prepends and deletions that start from the text of
\* createBasicFrontmatter, at most one blank line follows the frontmatter.
C21_NoBlankAccumulation ==
  /\ [][(op'.name = "delete" /\ ~DoubleBlank(out)) => ~DoubleBlank(out')]_vars
  /\ [](text = createBasicFrontmatter => ~WideGap(out))

\* a deletion whose block had a blank line before it and content after it,
\* in a file that began as the text of createBasicFrontmatter
C21_Witness ==
  /\ text = createBasicFrontmatter
  /\ op.name = "delete"
  /\ Len(docOut.spans) > 0
  /\ docOut.spans[1].start = Len(createBasicFrontmatter)
  /\ op.span.start = Len(createBasicFrontmatter)

\* The offset of the first line of lines[i..] whose trimmed content is ***,
\* lines[i] being at offset; -1 when there is none
RECURSIVE SeparatorFrom(_, _, _)
SeparatorFrom(lines, i, offset) ==
  IF i > Len(lines) THEN 0 - 1
  ELSE IF Trim(lines[i]) = ARCHIVE_SEPARATOR THEN offset
       ELSE SeparatorFrom(lines, i + 1, offset + Len(lines[i]) + 1)

FirstSeparator(t) == SeparatorFrom(Split(t), 1, 0)

\* Where the block of entry e of d starts
StartOf(d, e) == GetSpan(d.spans, e.id).start

\* C22: every entry whose block starts after the first line whose trimmed
\* content is *** is in archiveEntries, and every entry whose block starts
\* before it (or in a text without such a line) is in entries.  Stated for
\* the texts whose blocks have different ids, where each entry has its own
\* span.
C22_ArchiveBoundary ==
  IdsDistinct(doc) =>
    /\ \A i \in 1..Len(doc.entries) :
         \/ FirstSeparator(text) < 0
         \/ StartOf(doc, doc.entries[i]) < FirstSeparator(text)
    /\ \A i \in 1..Len(doc.archiveEntries) :
         /\ FirstSeparator(text) >= 0
         /\ StartOf(doc, doc.archiveEntries[i]) > FirstSeparator(text)

\* The offset of line i of lines
RECURSIVE OffsetOf(_, _)
OffsetOf(lines, i) ==
  IF i = 1 THEN 0 ELSE OffsetOf(lines, i - 1) + Len(lines[i - 1]) + 1

\* Line i of the text t is a separator, or the heading in the archive section
IsBoundaryLine(t, i) ==
  \/ Trim(Split(t)[i]) = ARCHIVE_SEPARATOR
  \/ /\ Trim(Split(t)[i]) = ARCHIVE_HEADING
     /\ FirstSeparator(t) >= 0
     /\ OffsetOf(Split(t), i) > FirstSeparator(t)

\* C23: no line whose trimmed content is *** and no ## Archive line of the
\* archive section begins inside the range [start, end] of a span of the
\* parse.
C23_BoundaryOutsideSpans ==
  \A k \in 1..Len(doc.spans), i \in 1..Len(Split(text)) :
    IsBoundaryLine(text, i) =>
      ~(/\ doc.spans[k].start <= OffsetOf(Split(text), i)
        /\ OffsetOf(Split(text), i) <= doc.spans[k].end)

\* The lines of the block of span sp of the text t, without the prefix of
\* the item and the indentation
SpanLines(t, sp) == Unprefixed(Split(Substring(t, sp.start, sp.end)))

\* Nothing but blank lines and lines that hold just an identity marker
OnlyMarkers(ls) ==
  \A i \in 1..Len(ls) : Trim(ls[i]) = <<>> \/ Trim(ReplaceMarker(ls[i])) = <<>>

\* C24: a block whose text is empty once its identity marker is removed
\* gives no entry and no span, and no entry has a raw that is empty once
\* its identity marker is removed.
C24_EmptyBlocksDiscarded ==
  /\ \A k \in 1..Len(doc.spans) : ~OnlyMarkers(SpanLines(text, doc.spans[k]))
  /\ \A i \in 1..Count(doc) : ~OnlyMarkers(Split(AllEntries(doc)[i].raw))

\* C25: the ids generateBlockId returns during a parse, each called with
\* the ids registered so far and registered in its turn, are different
\* ids.
C25_GeneratedIdsDiffer ==
  \A i, j \in 1..Count(doc) :
    (/\ i # j
     /\ AllEntries(doc)[i].idMissing
     /\ AllEntries(doc)[j].idMissing)
      => AllEntries(doc)[i].id # AllEntries(doc)[j].id

\* The last line of the block that starts at line i: the last of the lines
\* after i that are, one after another, blank or indented by two spaces
RECURSIVE RunEnd(_, _)
RunEnd(lines, i) ==
  IF i < Len(lines) /\ (IsBlank(lines[i + 1]) \/ StartsWith(lines[i + 1], Indent))
  THEN RunEnd(lines, i + 1)
  ELSE i

\* The span sp is that of the block that starts at line i of lines
IsRunFrom(lines, i, sp) ==
  /\ IsListItem(lines[i])
  /\ sp.start = OffsetOf(lines, i)
  /\ sp.end = OffsetOf(lines, RunEnd(lines, i)) + Len(lines[RunEnd(lines, i)])

\* C26: the block of every entry starts at a line that begins with "- " and
\* extends over every following line that is blank or begins with two
\* spaces, whatever the line holds, up to the next line that is neither or
\* the end of the text.  Stated for the texts whose blocks have different
\* ids, where each entry has its own span.
C26_BlockBoundaries ==
  IdsDistinct(doc) =>
    \A k \in 1..Len(doc.spans) :
      \E i \in 1..Len(Split(text)) : IsRunFrom(Split(text), i, doc.spans[k])

\* The entries of es have spans in d, each before the span of the next
Ascending(d, es) ==
  \A i, j \in 1..Len(es) :
    i < j => GetSpan(d.spans, es[i].id).end < GetSpan(d.spans, es[j].id).start

\* The spans of the entries i and j of d have no offset in common
Apart(d, i, j) ==
  \/ GetSpan(d.spans, AllEntries(d)[i].id).end < GetSpan(d.spans, AllEntries(d)[j].id).start
  \/ GetSpan(d.spans, AllEntries(d)[j].id).end < GetSpan(d.spans, AllEntries(d)[i].id).start

\* Every entry of d has a span under its id
AllSpanned(d) == \A i \in 1..Count(d) : HasSpan(d.spans, AllEntries(d)[i].id)

\* The span lies in the text and starts at a list item
InText(t, sp) ==
  /\ 0 <= sp.start
  /\ sp.start <= sp.end
  /\ sp.end <= Len(t)
  /\ StartsWith(SubstringFrom(t, sp.start), <<"-", " ">>)

\* C28: every entry has a span under its id, every span lies in the text
\* and starts at "- ", the spans of two entries have no offset in common,
\* and the spans of the entries of each list increase in the order of the
\* list.  Stated for the parses that synthesized no id, where the ids are
\* the ones written in the text.
C28_SpanMapWellFormed ==
  NoneSynthesized(doc) =>
    /\ AllSpanned(doc)
    /\ \A k \in 1..Len(doc.spans) : InText(text, doc.spans[k])
    /\ \A i, j \in 1..Count(doc) : i # j => Apart(doc, i, j)
    /\ Ascending(doc, doc.entries)
    /\ Ascending(doc, doc.archiveEntries)

(***************************************************************************)
(* Properties of the state manager                                         *)
(***************************************************************************)
\* The cycles that wrote before cycle j
WroteBefore(j) == {i \in 1..(j - 1) : writeQueue[i].wrote}

\* The text the last cycle before cycle j wrote, or the text the file had
\* when the state manager was made
PreviousText(j) ==
  IF WroteBefore(j) = {} THEN history.file0
  ELSE writeQueue[SetMax(WroteBefore(j))].newContent

\* C6: the cycles of queueWrite run one at a time in request order: a cycle
\* has started only if every cycle requested before it has ended, and,
\* without another writer, each transform is applied to the text the
\* previous cycle wrote.
C6_SerializedQueue ==
  /\ \A i, j \in 1..Len(writeQueue) :
       (i < j /\ writeQueue[j].pc # "queued") => writeQueue[i].pc = "done"
  /\ history.externalWrites = 0 =>
       \A j \in 1..Len(writeQueue) :
         writeQueue[j].applied => writeQueue[j].data = PreviousText(j)

\* A cycle requested while the one before it was running has been applied
\* to the text that one wrote
C6_Witness ==
  /\ history.externalWrites = 0
  /\ \E j \in 2..Len(writeQueue) :
       /\ writeQueue[j].waited /\ writeQueue[j].applied
       /\ writeQueue[j - 1].wrote
       /\ writeQueue[j - 1].newContent # history.file0
       /\ writeQueue[j].data = writeQueue[j - 1].newContent

\* C7: whenever the state manager applies replaceEntrySpan, deleteEntrySpan
\* or moveToArchive, the span it passes was computed by parsing the text it
\* passes in the same call.
C7_NoStaleSpans ==
  \A i \in 1..Len(writeQueue) :
    (writeQueue[i].applied /\ writeQueue[i].kind \in {"update", "delete", "archive"})
      => writeQueue[i].data = writeQueue[i].spanText

\* No call, no event and no read is in flight
Quiescent ==
  /\ history.initialized
  /\ \A i \in 1..Len(writeQueue) : writeQueue[i].pc = "done"
  /\ pending = 0
  /\ reloads = <<>>

\* C8: after another writer changed the file and no read or write failed,
\* once nothing is in flight, parsed.originalText is the contents of the
\* file.
C8_ReparseOnExternal ==
  (Quiescent /\ history.externalWrites > 0 /\ history.failures = 0)
    => (parsed # <<>> /\ parsed[1].originalText = file)

\* The entries with id among es are exactly one, with this raw
OneWith(es, id, raw) ==
  /\ Cardinality(WithId(es, id)) = 1
  /\ \A i \in WithId(es, id) : es[i].raw = raw

\* d is the document before with the entry id in the active list again:
\* one entry with that id, active and with the raw it had, and every other
\* entry with its id and raw
Restored(before, d, id) ==
  /\ \A i \in WithId(AllEntries(before), id) :
       /\ OneWith(AllEntries(d), id, AllEntries(before)[i].raw)
       /\ WithId(d.entries, id) # {}
  /\ \A i \in 1..Count(before) :
       AllEntries(before)[i].id # id =>
         OneWith(AllEntries(d), AllEntries(before)[i].id, AllEntries(before)[i].raw)
  /\ Count(d) = Count(before)

\* deleteEntry(id) and then undoLastDelete() were the only calls, both wrote
\* the file, nothing else happened and nothing is in flight
DeletedThenUndone ==
  /\ Quiescent
  /\ history.events = 2
  /\ Len(writeQueue) = 2
  /\ writeQueue[1].kind \in {"delete", "archive"} /\ writeQueue[1].wrote
  /\ writeQueue[2].kind = "undo" /\ writeQueue[2].wrote

\* C9: after deleteEntry(id) and undoLastDelete() within the five minutes,
\* both writes succeeding, the parse of the file has one entry with that id,
\* active and with the raw it had, and every other entry with its id and raw.
C9_UndoRestores ==
  DeletedThenUndone =>
    \A before \in Parses(history.file0, clock), d \in Parses(file, clock) :
      Restored(before, d, writeQueue[1].span.id)

\* The cycles of undoLastDelete queued since the last deleteEntry
UndoCyclesSinceDelete ==
  {i \in 1..Len(writeQueue) :
     /\ writeQueue[i].kind = "undo"
     /\ \A j \in i..Len(writeQueue) : writeQueue[j].kind \notin {"delete", "archive"}}

\* C10: there is at most one undo record, it is the record of the last
\* deleteEntry, and of the calls of undoLastDelete after one deleteEntry and
\* before the next at most one returns true and at most one queues a write.
C10_UndoLifecycle ==
  /\ Len(lastDeleted) <= 1
  /\ lastDeleted # <<>> => (lastDeleted = history.deleteRecord /\ history.undoTrue = 0)
  /\ history.undoTrue <= 1
  /\ history.deleteRecord # <<>> => Cardinality(UndoCyclesSinceDelete) <= 1

\* undoLastDelete was called twice after one deleteEntry, and once it
\* returned true
C10_Witness ==
  /\ history.undoCalls >= 2
  /\ history.undoTrue = 1
  /\ Cardinality(UndoCyclesSinceDelete) = 1

\* A step is a call of undoLastDelete
UndoCalled == history'.undoCalls = history.undoCalls + 1

\* C11: a call of undoLastDelete takes the record and queues its write (the
\* call that returns true) exactly when canUndo() is true at the call; when
\* there is no record or more than five minutes have passed since deletedAt
\* it queues nothing and no record is left.
C11_UndoExpiry ==
  [][UndoCalled =>
       /\ (history'.undoTrue = history.undoTrue + 1) <=> canUndo
       /\ canUndo => Len(writeQueue') = Len(writeQueue) + 1
       /\ ~canUndo => /\ writeQueue' = writeQueue
                      /\ lastDeleted' = <<>>
                      /\ history'.undoTrue = history.undoTrue]_vars

\* undoLastDelete was called more than five minutes after the delete: the
\* record is gone and no undo is queued
C11_Witness ==
  /\ history.undoCalls >= 1
  /\ history.undoTrue = 0
  /\ history.deleteRecord # <<>>
  /\ clock - history.deleteRecord[1].deletedAt > UNDO_WINDOW
  /\ lastDeleted = <<>>
  /\ UndoCyclesSinceDelete = {}

\* Cycle i ends in this step after its read or its write failed
EndsFailed(i) ==
  /\ writeQueue[i].pc # "done"
  /\ writeQueue'[i].pc = "done"
  /\ ~writeQueue'[i].ok

\* Every cycle requested before cycle i has ended, failed or not
AllEnded(i) == \A j \in 1..(i - 1) : writeQueue[j].pc = "done"

\* C12: a read or a write that fails ends its cycle: the step that ends it
\* leaves parsed as it was and notifies no subscriber, the cycle has not
\* changed the file and is never run again, and a queued cycle can start as
\* soon as the cycles before it have ended, whatever failed in them.
C12_FailureIsolation ==
  /\ [][\A i \in 1..Len(writeQueue) :
          /\ EndsFailed(i) =>
               /\ parsed' = parsed
               /\ history'.notified = history.notified
               /\ ~writeQueue'[i].wrote
          /\ writeQueue[i].pc = "done" => writeQueue'[i] = writeQueue[i]]_vars
  /\ [](\A i \in 1..Len(writeQueue) :
          (writeQueue[i].pc = "queued" /\ AllEnded(i)) => ENABLED CycleStart(i))

\* A cycle ended after a failure and a cycle requested after it wrote the
\* file
C12_Witness ==
  \E i, j \in 1..Len(writeQueue) :
    /\ i < j
    /\ writeQueue[i].pc = "done" /\ ~writeQueue[i].ok
    /\ writeQueue[j].wrote /\ writeQueue[j].pc = "done"

\* The entries of the text t that every parse of it has, whatever ids it
\* generates
Structure(t) == parseMomentsDoc(t, clock, <<>>)

\* The span starts before the archive section of the text t
ActiveAt(t, sp) ==
  \/ Structure(t).archiveStartOffset < 0
  \/ sp.start < Structure(t).archiveStartOffset

\* Cycle i is the soft delete of an active entry, has read the text its span
\* was taken from, and has written
SoftDeleted(i) ==
  /\ writeQueue[i].kind = "archive"
  /\ writeQueue[i].pc = "done"
  /\ writeQueue[i].wrote
  /\ writeQueue[i].data = writeQueue[i].spanText
  /\ ActiveAt(writeQueue[i].spanText, writeQueue[i].span)

\* C27: once the write of a soft delete of a listed active entry has
\* succeeded, the text written has one active entry less and one archived
\* entry more than the text read, whether the id of the entry was in the
\* text or synthesized by the parse.
C27_SoftDeleteMoves ==
  \A i \in 1..Len(writeQueue) :
    SoftDeleted(i) =>
      /\ Len(Structure(writeQueue[i].newContent).entries)
           = Len(Structure(writeQueue[i].data).entries) - 1
      /\ Len(Structure(writeQueue[i].newContent).archiveEntries)
           = Len(Structure(writeQueue[i].data).archiveEntries) + 1

\* The lines of the text t that carry the identity marker of id
MarkerLines(t, id) == {i \in 1..Len(Split(t)) : extractBlockId(Split(t)[i]) = id}

\* Nothing but deleteEntry and undoLastDelete was asked of the state
\* manager, and no other writer changed the file
OnlyDeletesAndUndos ==
  /\ history.externalWrites = 0
  /\ \A i \in 1..Len(writeQueue) : writeQueue[i].kind \in {"delete", "archive", "undo"}

\* C29: after calls of deleteEntry and undoLastDelete, whatever failed in
\* their cycles, no two blocks of the file carry the same identity marker:
\* an undo does not insert the block of a deletion that did not happen.
C29_UndoOnlyRemoved ==
  OnlyDeletesAndUndos =>
    \A id \in {IdA, IdB} : Cardinality(MarkerLines(file, id)) <= 1

\* Cycle i has called its transform and has not reached its end
InWrite(i) == writeQueue[i].pc \in {"writing", "written"}

\* A step is the delivery of the modify event of another writer's change
Delivered == pending' = pending - 1

\* C30: selfModified is true exactly while a cycle is between its transform
\* and its end, so it is false whenever no cycle is executing, a failed
\* read or write included, and a modify event delivered then starts a
\* reload.
C30_SelfModifiedScoped ==
  /\ [](selfModified <=> \E i \in 1..Len(writeQueue) : InWrite(i))
  /\ [][(Delivered /\ \A i \in 1..Len(writeQueue) : ~InWrite(i))
          => Len(reloads') = Len(reloads) + 1]_vars

\* The write of a cycle failed after selfModified was set, and the modify
\* event of another writer's change, delivered later, started a reload
C30_Witness ==
  /\ \E i \in 1..Len(writeQueue) :
       /\ writeQueue[i].pc = "done"
       /\ writeQueue[i].applied
       /\ ~writeQueue[i].ok
  /\ \A i \in 1..Len(writeQueue) : writeQueue[i].pc = "done"
  /\ ~selfModified
  /\ history.externalWrites > 0
  /\ pending = 0
  /\ reloads # <<>>

====
